---- MODULE Spec2Model ----
(***************************************************************************)
(* AURA Seed Plan PoC: the planning pipeline.                              *)
(*                                                                         *)
(*   app/services/seed.py         SeedGeneratorService (Seed Allocator)    *)
(*   app/services/constraints.py  ConstraintsService (Constraint Validator)*)
(*   app/api/routes.py            /seed/generate, /seed/validate and the   *)
(*                                background workflow execute_full_workflow*)
(*   app/orchestration/graph.py   the four-node LangGraph pipeline         *)
(*   app/services/exporter.py     export_plan_to_csv                       *)
(*                                                                         *)
(* Money is counted in whole currency units (the code uses float and       *)
(* Decimal; rounding of binary floats is outside this model).  A forecast  *)
(* demand is a natural number, so int(priority / 2) is priority \div 2.    *)
(***************************************************************************)
EXTENDS Integers, Sequences, FiniteSets, TLC

\* ------------------------------------------------------------------ bounds
MaxSkus == 2        \* longest SKU catalog
MaxLines == 2       \* longest line list handed to /seed/validate
MaxStores == 4      \* largest cluster map (more than the 3 stores per SKU)
MaxBudget == 3      \* largest budget
MaxCost == 2        \* largest unit cost
MaxCap == 2         \* largest max_skus_per_store
MaxClock == 2       \* seconds of wall-clock time that pass
MaxSaves == 2       \* most save_plan calls in a run

\* ------------------------------------------------------- program constants
DefaultDemand == 5          \* forecast.get('forecast_demand', 5.0)
StoresPerSku == 3           \* eligible_stores[:3]
DefaultMinSkus == 0         \* rules.get('min_skus_per_store', 0)

\* The mock cluster assignment of ClusteringService.cluster_stores, S1..S8.
mock_cluster_map == <<0, 1, 0, 1, 2, 1, 2, 0>>

\* ------------------------------------------------------------- input sets
SkuIds == {"A", "B"}
Demands == {1, 4}           \* forecast demands: quantity 1 and quantity 2
NoForecast == -1            \* the SKU has no entry in demand_forecasts
Costs == 0..MaxCost
Budgets == -1..MaxBudget
Caps == -1..MaxCap
StoreCounts == 0..MaxStores

SkuRows == [sku_id : SkuIds, cost : Costs]
Catalogs == UNION {[1..n -> SkuRows] : n \in 0..MaxSkus}

\* store ids are 1..n in the insertion order of the cluster map
ClusterMaps == {[i \in 1..n |-> i] : n \in StoreCounts}

RECURSIVE SumCost(_)
SumCost(ls) == IF ls = <<>> THEN 0 ELSE ls[1].cost + SumCost(Tail(ls))

Range(s) == {s[i] : i \in 1..Len(s)}

Min(a, b) == IF a < b THEN a ELSE b

VARIABLES
    entry,               \* which entry point this run exercises
    pc,                  \* position of the run
    skus_df,             \* the SKU catalog, in file order
    cluster_map,         \* the stores of the cluster map, in insertion order
    budget,              \* constraints.budget
    max_skus_per_store,  \* constraints.max_skus_per_store
    use_forecasting,     \* generate_plan's use_forecasting argument
    demand_forecasts,    \* sku_id -> forecast demand, or NoForecast
    sku_priorities,      \* the ranked (priority, sku) pairs
    idx,                 \* position of the outer loop in sku_priorities
    eligible_stores,     \* eligible_stores[:3] of the SKU being allocated
    sidx,                \* position of the inner loop in eligible_stores
    lines,               \* the lines emitted so far
    remaining_budget,    \* the running budget
    store_sku_counts,    \* store -> number of lines given to it
    plan,                \* what generate_plan returned
    val_lines,           \* the lines handed to validate_plan
    rules,               \* the rules handed to validate_plan
    validation_result,   \* what validate_plan returned
    final_result,        \* final_result of execute_full_workflow
    state,               \* the SeedState of a graph run
    written,             \* the SeedState keys the nodes have written
    trace,               \* the graph nodes that have run, in order
    export_calls,        \* the line lists export_plan_to_csv was called with
    plans,               \* the content of plans.json: plan_id -> stored plan
    clock,               \* time.time(), in whole seconds
    saved,               \* the save_plan calls made: arguments and returned tuple
    fetched,             \* what the last get_plan call returned
    export_lines,        \* the lines given to export_plan_to_csv
    out_file,            \* the file at the export path
    input_stores,        \* the store ids of stores_csv
    n_clusters,          \* the n_clusters argument of cluster_stores
    cluster_result,      \* the cluster_map cluster_stores returned
    procs,               \* the concurrent save_plan calls: position and locals
    plans_file           \* does plans.json exist

seedVars == <<skus_df, cluster_map, budget, max_skus_per_store, use_forecasting,
              demand_forecasts, sku_priorities, idx, eligible_stores, sidx,
              lines, remaining_budget, store_sku_counts, plan>>

valVars == <<val_lines, rules, validation_result>>

graphVars == <<state, written, trace, export_calls>>

repoVars == <<plans, clock, saved, fetched>>

exportVars == <<export_lines, out_file>>

clusterVars == <<input_stores, n_clusters, cluster_result>>

concVars == <<procs, plans_file>>

extVars == <<repoVars, exportVars, clusterVars, concVars>>

vars == <<entry, pc, seedVars, valVars, final_result, graphVars, extVars>>

\* ------------------------------------------------------ values not yet set
NoPlan == [returned |-> FALSE, lines |-> <<>>, total_cost |-> 0]

NoRules ==
    [budget |-> [present |-> FALSE, type |-> "int", val |-> 0],
     max_skus_per_store |-> [present |-> FALSE, val |-> 0],
     min_skus_per_store |-> [present |-> FALSE, val |-> 0],
     fixture_constraints |-> [present |-> FALSE, max_space_per_store |-> 0]]

NoValidation == [present |-> FALSE, is_valid |-> FALSE, violations |-> <<>>]

NoFinal ==
    [present |-> FALSE, validation_status |-> "None", violations |-> 0,
     export_path |-> "None"]

NoState ==
    [cluster_map |-> <<>>, lines |-> <<>>, violations |-> <<>>,
     export_path |-> "None"]

SeedIdle ==
    /\ skus_df = <<>>
    /\ cluster_map = <<>>
    /\ budget = 0
    /\ max_skus_per_store = 0
    /\ use_forecasting = FALSE
    /\ demand_forecasts = [id \in SkuIds |-> NoForecast]
    /\ sku_priorities = <<>>
    /\ idx = 0
    /\ eligible_stores = <<>>
    /\ sidx = 0
    /\ lines = <<>>
    /\ remaining_budget = 0
    /\ store_sku_counts = <<>>
    /\ plan = NoPlan

ValidateIdle ==
    /\ val_lines = <<>>
    /\ rules = NoRules
    /\ validation_result = NoValidation

GraphIdle ==
    /\ state = NoState
    /\ written = {}
    /\ trace = <<>>
    /\ export_calls = <<>>

NoFile == [exists |-> FALSE, header |-> FALSE, rows |-> <<>>, closed |-> FALSE]

NoFetch == [called |-> FALSE, plan_id |-> 0, found |-> FALSE, name |-> "", lines |-> <<>>]

RepoIdle ==
    /\ plans = {}
    /\ clock = 0
    /\ saved = <<>>
    /\ fetched = NoFetch

ExportIdle ==
    /\ export_lines = <<>>
    /\ out_file = NoFile

ClusterIdle ==
    /\ input_stores = {}
    /\ n_clusters = 0
    /\ cluster_result = <<>>

ConcIdle ==
    /\ procs = <<>>
    /\ plans_file = "missing"

ExtIdle == RepoIdle /\ ExportIdle /\ ClusterIdle /\ ConcIdle

\* ------------------------------------------------- seed.py: the allocator

\* demand_forecasts as generate_plan builds it: an entry for every sku_id of
\* the catalog when use_forecasting, the empty dict otherwise.
ForecastsFor(df, use) ==
    LET present == {df[i].sku_id : i \in 1..Len(df)}
    IN  IF use
        THEN {f \in [SkuIds -> Demands \cup {NoForecast}] :
                \A id \in SkuIds : (f[id] = NoForecast) <=> (id \notin present)}
        ELSE {[id \in SkuIds |-> NoForecast]}

\* forecast.get('forecast_demand', 5.0)
Priority(forecasts, id) ==
    IF forecasts[id] = NoForecast THEN DefaultDemand ELSE forecasts[id]

\* an unstable descending sort: an element goes before the elements of its
\* own priority, so equal priorities come out in reverse catalog order
InsertRankedBeforeEqual(sorted, e) ==
    LET p == Cardinality({i \in 1..Len(sorted) : sorted[i].priority > e.priority})
    IN  SubSeq(sorted, 1, p) \o <<e>> \o SubSeq(sorted, p + 1, Len(sorted))

\* list.sort(key=priority, reverse=True) is stable: an element goes after
\* every element whose priority is at least its own.
InsertRanked(sorted, e) ==
    LET p == Cardinality({i \in 1..Len(sorted) : sorted[i].priority >= e.priority})
    IN  SubSeq(sorted, 1, p) \o <<e>> \o SubSeq(sorted, p + 1, Len(sorted))

RECURSIVE SortRanked(_)
SortRanked(s) ==
    IF s = <<>> THEN <<>>
    ELSE InsertRanked(SortRanked(SubSeq(s, 1, Len(s) - 1)), s[Len(s)])

RankSkus(df, forecasts) ==
    SortRanked([i \in 1..Len(df) |->
        [priority |-> Priority(forecasts, df[i].sku_id),
         sku_id |-> df[i].sku_id, cost |-> df[i].cost]])

\* quantity = max(1, int(priority / 2))
Quantity(priority) == IF priority \div 2 > 1 THEN priority \div 2 ELSE 1

\* EligibleStores with the cap compared by <= : a store at the cap stays eligible
EligibleStoresAtCap(cmap, counts, cap) ==
    SelectSeq(cmap, LAMBDA s : counts[s] <= cap)

\* the stores whose count is below the cap, in cluster-map order
EligibleStores(cmap, counts, cap) ==
    SelectSeq(cmap, LAMBDA s : counts[s] < cap)

\* FirstStores without the [:3] of seed.py 130: every eligible store
FirstStoresAll(e) == e

\* FirstStores walked backwards: the same stores, last one first
FirstStoresReversed(e) ==
    [i \in 1..Min(StoresPerSku, Len(e)) |-> e[Min(StoresPerSku, Len(e)) + 1 - i]]

FirstStores(e) == SubSeq(e, 1, Min(StoresPerSku, Len(e)))

\* Affordable without the test of seed.py 135: only the unit cost was tested
AffordableUnitOnly(remaining, line_cost) == TRUE

\* can the line be paid for: remaining_budget >= line_cost
Affordable(remaining, line_cost) == remaining >= line_cost

\* PlanLine with the unit cost written as the cost of the line
PlanLineUnitCost(sku, store, quantity) ==
    [sku |-> sku.sku_id, store |-> store, cluster |-> mock_cluster_map[store],
     quantity |-> quantity, unit_cost |-> sku.cost,
     cost |-> sku.cost, forecast_demand |-> sku.priority]

\* seed.py 136-144
PlanLine(sku, store, quantity) ==
    [sku |-> sku.sku_id, store |-> store, cluster |-> mock_cluster_map[store],
     quantity |-> quantity, unit_cost |-> sku.cost,
     cost |-> sku.cost * quantity, forecast_demand |-> sku.priority]

InitSeed ==
    /\ entry = "seed"
    /\ pc = "generate_plan"
    /\ skus_df \in Catalogs
    /\ cluster_map \in ClusterMaps
    /\ budget \in Budgets
    /\ max_skus_per_store \in Caps
    /\ use_forecasting \in BOOLEAN
    /\ demand_forecasts \in ForecastsFor(skus_df, use_forecasting)
    /\ sku_priorities = <<>>
    /\ idx = 0
    /\ eligible_stores = <<>>
    /\ sidx = 0
    /\ lines = <<>>
    /\ remaining_budget = 0
    /\ store_sku_counts = <<>>
    /\ plan = NoPlan
    /\ ValidateIdle
    /\ final_result = NoFinal
    /\ GraphIdle
    /\ ExtIdle

\* seed.py 99-112: the locals of _generate_plan_lines before the loop
StartPlanLines ==
    /\ entry = "seed" /\ pc = "generate_plan"
    /\ UNCHANGED extVars
    /\ lines' = <<>>
    /\ remaining_budget' = budget
    /\ sku_priorities' = RankSkus(skus_df, demand_forecasts)
    /\ store_sku_counts' = [i \in 1..Len(cluster_map) |-> 0]
    /\ idx' = 1
    /\ pc' = "sku_loop"
    /\ UNCHANGED <<valVars, final_result, graphVars>>
    /\ UNCHANGED <<entry, skus_df, cluster_map, budget, max_skus_per_store,
                   use_forecasting, demand_forecasts, eligible_stores, sidx, plan>>

\* seed.py 114-127: the head of one iteration of the outer loop
NextSku ==
    /\ entry = "seed" /\ pc = "sku_loop" /\ idx <= Len(sku_priorities)
    /\ UNCHANGED extVars
    /\ LET sku == sku_priorities[idx]
           elig == EligibleStores(cluster_map, store_sku_counts, max_skus_per_store)
       IN  IF remaining_budget < sku.cost \/ elig = <<>>
           THEN /\ idx' = idx + 1
                /\ UNCHANGED <<pc, eligible_stores, sidx>>
           ELSE /\ eligible_stores' = FirstStores(elig)
                /\ sidx' = 1
                /\ pc' = "store_loop"
                /\ UNCHANGED idx
    /\ UNCHANGED <<valVars, final_result, graphVars>>
    /\ UNCHANGED <<entry, skus_df, cluster_map, budget, max_skus_per_store,
                   use_forecasting, demand_forecasts, sku_priorities, lines,
                   remaining_budget, store_sku_counts, plan>>

\* seed.py 130-147: one iteration of the inner loop
AllocateStore ==
    /\ entry = "seed" /\ pc = "store_loop" /\ sidx <= Len(eligible_stores)
    /\ UNCHANGED extVars
    /\ LET sku == sku_priorities[idx]
           store == eligible_stores[sidx]
           quantity == Quantity(sku.priority)
           line_cost == sku.cost * quantity
       IN  IF remaining_budget >= sku.cost /\ Affordable(remaining_budget, line_cost)
           THEN /\ lines' = Append(lines, PlanLine(sku, store, quantity))
                /\ remaining_budget' = remaining_budget - line_cost
                /\ store_sku_counts' =
                       [store_sku_counts EXCEPT ![store] = @ + 1]
           ELSE UNCHANGED <<lines, remaining_budget, store_sku_counts>>
    /\ IF sidx = Len(eligible_stores)
       THEN /\ pc' = "sku_loop" /\ idx' = idx + 1 /\ sidx' = sidx
       ELSE /\ sidx' = sidx + 1 /\ UNCHANGED <<pc, idx>>
    /\ UNCHANGED <<valVars, final_result, graphVars>>
    /\ UNCHANGED <<entry, skus_df, cluster_map, budget, max_skus_per_store,
                   use_forecasting, demand_forecasts, sku_priorities,
                   eligible_stores, plan>>

\* seed.py 149: return lines
ReturnPlanLines ==
    /\ entry = "seed" /\ pc = "sku_loop" /\ idx > Len(sku_priorities)
    /\ UNCHANGED extVars
    /\ pc' = "lines_returned"
    /\ UNCHANGED <<entry, seedVars, valVars, final_result, graphVars>>

\* seed.py 191, 194: the two divisions of _calculate_coverage_stats
CoverageStatsRaises(b, cmap) == b = 0 \/ Len(cmap) = 0

\* seed.py 37-56: confidence scores, total cost, coverage statistics, result
FinishGeneratePlan ==
    /\ entry = "seed" /\ pc = "lines_returned"
    /\ UNCHANGED extVars
    /\ IF CoverageStatsRaises(budget, cluster_map)
       THEN pc' = "failed" /\ UNCHANGED plan
       ELSE /\ plan' = [returned |-> TRUE, lines |-> lines,
                        total_cost |-> SumCost(lines)]
            /\ pc' = "plan_returned"
    /\ UNCHANGED <<valVars, final_result, graphVars>>
    /\ UNCHANGED <<entry, skus_df, cluster_map, budget, max_skus_per_store,
                   use_forecasting, demand_forecasts, sku_priorities, idx,
                   eligible_stores, sidx, lines, remaining_budget,
                   store_sku_counts>>

\* ------------------------------------------- constraints.py: the validator

\* the stores of the lines, in order of first appearance (dict insertion order)
RECURSIVE StoresInOrder(_)
StoresInOrder(ls) ==
    IF ls = <<>> THEN <<>>
    ELSE LET rest == StoresInOrder(SubSeq(ls, 1, Len(ls) - 1))
             s == ls[Len(ls)].store
         IN  IF s \in Range(rest) THEN rest ELSE Append(rest, s)

LinesOf(ls, store) == SelectSeq(ls, LAMBDA l : l.store = store)

\* SkuCount with a list in place of the set: repeated lines are counted again
SkuCountLines(ls, store) == Len(LinesOf(ls, store))

\* len(store_sku_counts[store]): the set of the store's SKUs
SkuCount(ls, store) == Cardinality({l.sku : l \in Range(LinesOf(ls, store))})

RECURSIVE SumQuantity(_)
SumQuantity(ls) == IF ls = <<>> THEN 0 ELSE ls[1].quantity + SumQuantity(Tail(ls))

Violation(type, store, severity) ==
    [type |-> type, store |-> store, severity |-> severity]

\* BudgetExceeded with >= : a plan that spends the whole budget is rejected
BudgetExceededAtLimit(total_cost, rule) == rule.present /\ total_cost >= rule.val

\* constraints.py 59: total_cost > max_budget, max_budget = inf when absent
BudgetExceeded(total_cost, rule) == rule.present /\ total_cost > rule.val

\* constraints.py 64: total_cost - max_budget is Decimal - float (a TypeError)
\* when the sum ran over at least one line and the budget rule is a float
SuggestionRaises(ls, rule) == ls # <<>> /\ rule.type = "float"

\* constraints.py 52-67
validate_budget(ls, rs) ==
    IF BudgetExceeded(SumCost(ls), rs.budget)
    THEN [raised |-> SuggestionRaises(ls, rs.budget),
          violations |-> <<Violation("budget_exceeded", 0, "critical")>>]
    ELSE [raised |-> FALSE, violations |-> <<>>]

\* constraints.py 84-100: the violations of one store
StoreSkuViolations(ls, rs, store) ==
    LET sku_count == SkuCount(ls, store)
        min_skus == IF rs.min_skus_per_store.present
                    THEN rs.min_skus_per_store.val ELSE DefaultMinSkus
    IN  (IF rs.max_skus_per_store.present /\ sku_count > rs.max_skus_per_store.val
         THEN <<Violation("sku_limit_exceeded", store, "critical")>> ELSE <<>>)
        \o
        (IF sku_count < min_skus
         THEN <<Violation("sku_minimum_not_met", store, "warning")>> ELSE <<>>)

RECURSIVE SkuViolations(_, _, _)
SkuViolations(ls, rs, stores) ==
    IF stores = <<>> THEN <<>>
    ELSE StoreSkuViolations(ls, rs, stores[1]) \o SkuViolations(ls, rs, Tail(stores))

\* constraints.py 69-102
validate_sku_limits(ls, rs) == SkuViolations(ls, rs, StoresInOrder(ls))

\* constraints.py 124-133; space is counted in tenths of a square foot
\* (quantity * 0.1 against max_space_per_store)
RECURSIVE FixtureViolations(_, _, _)
FixtureViolations(ls, rs, stores) ==
    IF stores = <<>> THEN <<>>
    ELSE (IF SumQuantity(LinesOf(ls, stores[1]))
               > rs.fixture_constraints.max_space_per_store
          THEN <<Violation("fixture_capacity_exceeded", stores[1], "warning")>>
          ELSE <<>>)
         \o FixtureViolations(ls, rs, Tail(stores))

\* validate_fixture_capacity without the early return of lines 109-110: an
\* absent fixture rule is checked as a limit of no space at all
validate_fixture_capacity_unguarded(ls, rs) ==
    FixtureViolations(ls, rs, StoresInOrder(ls))

\* constraints.py 104-135
validate_fixture_capacity(ls, rs) ==
    IF ~rs.fixture_constraints.present THEN <<>>
    ELSE FixtureViolations(ls, rs, StoresInOrder(ls))

\* IsValid as "no violation at all": warnings are taken for critical ones
IsValidNoViolations(violations) == violations = <<>>

\* constraints.py 38-39
IsValid(violations) == \A v \in Range(violations) : v.severity # "critical"

\* constraints.py 10-50
validate_plan(ls, rs) ==
    LET b == validate_budget(ls, rs)
        violations == b.violations \o validate_sku_limits(ls, rs)
                          \o validate_fixture_capacity(ls, rs)
    IN  IF b.raised
        THEN [raised |-> TRUE, is_valid |-> FALSE, violations |-> <<>>]
        ELSE [raised |-> FALSE, is_valid |-> IsValid(violations),
              violations |-> violations]

\* ------------------------------------------- routes.py: POST /seed/validate
ValStores == {1, 2}
LineCosts == {1, MaxCost}
Quantities == {1, 2}
RuleBudgets == 0..MaxBudget
RuleCaps == 1..MaxCap
MinSkus == 2                \* a configured min_skus_per_store
MaxSpace == 1               \* a configured max_space_per_store, in tenths

ValLineRows == [store : ValStores, sku : SkuIds, cost : LineCosts, quantity : Quantities]
LineLists == UNION {[1..n -> ValLineRows] : n \in 0..MaxLines}

\* a JSON number is an int or a float
BudgetRules ==
    {NoRules.budget} \cup [present : {TRUE}, type : {"int", "float"}, val : RuleBudgets]
CapRules == {NoRules.max_skus_per_store} \cup [present : {TRUE}, val : RuleCaps]
MinRules == {NoRules.min_skus_per_store, [present |-> TRUE, val |-> MinSkus]}
FixtureRules ==
    {NoRules.fixture_constraints, [present |-> TRUE, max_space_per_store |-> MaxSpace]}

RuleSets ==
    [budget : BudgetRules, max_skus_per_store : CapRules,
     min_skus_per_store : MinRules, fixture_constraints : FixtureRules]

InitValidate ==
    /\ entry = "validate"
    /\ pc = "validate_plan"
    /\ val_lines \in LineLists
    /\ rules \in RuleSets
    /\ validation_result = NoValidation
    /\ SeedIdle
    /\ final_result = NoFinal
    /\ GraphIdle
    /\ ExtIdle

\* routes.py 82-100: the result, or HTTP 500 when validate_plan raises
ValidateRoute ==
    /\ entry = "validate" /\ pc = "validate_plan"
    /\ UNCHANGED extVars
    /\ LET r == validate_plan(val_lines, rules)
       IN  IF r.raised
           THEN pc' = "failed" /\ UNCHANGED validation_result
           ELSE /\ validation_result' =
                      [present |-> TRUE, is_valid |-> r.is_valid,
                       violations |-> r.violations]
                /\ pc' = "validated"
    /\ UNCHANGED <<entry, seedVars, val_lines, rules, final_result, graphVars>>

\* ------------------------------------- routes.py: execute_full_workflow

\* routes.py 235-240: line.sku_id on a dict raises AttributeError
ConvertRaises(ls) == ls # <<>>

\* routes.py 241-244: the budget is the Decimal of PlanningConstraints
WorkflowRules(b, m) ==
    [NoRules EXCEPT !.budget = [present |-> TRUE, type |-> "Decimal", val |-> b],
                    !.max_skus_per_store = [present |-> TRUE, val |-> m]]

\* routes.py 253-259
ValidationStatus(is_valid) ==
    IF is_valid THEN "auto_approved" ELSE "requires_manual_review"

\* routes.py 264: assigned on every run that reaches step 4
WorkflowExportPath(violations) == "exports/seed_plan.csv"

\* routes.py 232-250 (generate_plan is called with use_forecasting's default)
WorkflowValidate ==
    /\ entry = "seed" /\ pc = "plan_returned" /\ use_forecasting
    /\ UNCHANGED extVars
    /\ LET rs == WorkflowRules(budget, max_skus_per_store)
           r == validate_plan(<<>>, rs)
       IN  IF ConvertRaises(plan.lines) \/ r.raised
           THEN pc' = "failed" /\ UNCHANGED valVars
           ELSE /\ val_lines' = <<>>
                /\ rules' = rs
                /\ validation_result' =
                      [present |-> TRUE, is_valid |-> r.is_valid,
                       violations |-> r.violations]
                /\ pc' = "workflow_validated"
    /\ UNCHANGED <<entry, seedVars, final_result, graphVars>>

\* routes.py 252-275
WorkflowFinish ==
    /\ entry = "seed" /\ pc = "workflow_validated"
    /\ UNCHANGED extVars
    /\ final_result' =
          [present |-> TRUE,
           validation_status |-> ValidationStatus(validation_result.is_valid),
           violations |-> Len(validation_result.violations),
           export_path |-> WorkflowExportPath(validation_result.violations)]
    /\ pc' = "completed"
    /\ UNCHANGED <<entry, seedVars, valVars, graphVars>>

\* ------------------------------------------------ exporter.py, graph.py

\* the edges with generate and validate exchanged
EdgesReordered ==
    {<<"cluster", "validate">>, <<"validate", "generate">>, <<"generate", "export">>}

\* graph.py 62-68: the entry point, the edges and the finish point
EntryPoint == "cluster"
Edges ==
    {<<"cluster", "generate">>, <<"generate", "validate">>, <<"validate", "export">>}
FinishPoint == "export"

\* the node that runs after n: the target of its edge, END after the finish point
NextNode(n) ==
    IF n = FinishPoint THEN "END" ELSE (CHOOSE e \in Edges : e[1] = n)[2]

\* the SeedState keys a node reads and the key it returns (graph.py 20-50)
NodeReads(n) ==
    CASE n = "cluster"  -> {"stores_csv", "features", "k"}
      [] n = "generate" -> {"skus_csv", "cluster_map", "budget", "max_skus_per_store"}
      [] n = "validate" -> {"lines", "budget", "max_skus_per_store"}
      [] n = "export"   -> {"violations", "lines"}

NodeWrites(n) ==
    CASE n = "cluster"  -> {"cluster_map"}
      [] n = "generate" -> {"lines"}
      [] n = "validate" -> {"violations"}
      [] n = "export"   -> {"export_path"}

\* the keys the caller supplies to graph.invoke
InputKeys == {"stores_csv", "skus_csv", "features", "k", "budget", "max_skus_per_store"}

\* what the collaborators of the nodes may return (run_kmeans, generate_seed
\* and check_constraints are not part of the sources at hand)
GraphLineRows == [store_id : ValStores, sku_id : SkuIds, qty : {1}]
GraphLineLists == UNION {[1..n -> GraphLineRows] : n \in 0..MaxLines}
ViolationCodes == {"budget_exceeded", "sku_limit_exceeded"}
ViolationLists == UNION {[1..n -> ViolationCodes] : n \in 0..MaxLines}

\* exporter.py 11: l.model_dump() on the classes type("PL", (), l) built by
\* node_export raises AttributeError as soon as there is one line
ExportRaises(ls) == ls # <<>>

\* exporter.py 10
ExportedPath == "out/seed_auto.csv"

InitGraph ==
    /\ entry = "graph"
    /\ pc = EntryPoint
    /\ SeedIdle
    /\ ValidateIdle
    /\ final_result = NoFinal
    /\ GraphIdle
    /\ ExtIdle

\* NodeRaises with the exception swallowed: the run goes on to the next node
NodeRaisesAndContinues(n) ==
    /\ pc' = (IF n = "export" THEN "END" ELSE (CHOOSE e \in
                {<<"cluster", "generate">>, <<"generate", "validate">>,
                 <<"validate", "export">>} : e[1] = n)[2])
    /\ trace' = Append(trace, n)
    /\ UNCHANGED <<state, written, export_calls>>

\* a node raised: graph.invoke propagates the exception, nothing is written
NodeRaises(n) ==
    /\ pc' = "failed"
    /\ trace' = Append(trace, n)
    /\ UNCHANGED <<state, written, export_calls>>

\* graph.py 20-24
node_cluster ==
    /\ entry = "graph" /\ pc = "cluster"
    /\ UNCHANGED extVars
    /\ \/ NodeRaises("cluster")
       \/ \E cm \in ClusterMaps :
            /\ state' = [state EXCEPT !.cluster_map = cm]
            /\ written' = written \cup NodeWrites("cluster")
            /\ trace' = Append(trace, "cluster")
            /\ pc' = NextNode("cluster")
            /\ UNCHANGED export_calls
    /\ UNCHANGED <<entry, seedVars, valVars, final_result>>

\* graph.py 26-33
node_generate ==
    /\ entry = "graph" /\ pc = "generate"
    /\ UNCHANGED extVars
    /\ \/ NodeRaises("generate")
       \/ \E ls \in GraphLineLists :
            /\ state' = [state EXCEPT !.lines = ls]
            /\ written' = written \cup NodeWrites("generate")
            /\ trace' = Append(trace, "generate")
            /\ pc' = NextNode("generate")
            /\ UNCHANGED export_calls
    /\ UNCHANGED <<entry, seedVars, valVars, final_result>>

\* graph.py 35-43
node_validate ==
    /\ entry = "graph" /\ pc = "validate"
    /\ UNCHANGED extVars
    /\ \/ NodeRaises("validate")
       \/ \E vs \in ViolationLists :
            /\ state' = [state EXCEPT !.violations = vs]
            /\ written' = written \cup NodeWrites("validate")
            /\ trace' = Append(trace, "validate")
            /\ pc' = NextNode("validate")
            /\ UNCHANGED export_calls
    /\ UNCHANGED <<entry, seedVars, valVars, final_result>>

\* graph.py 47: if state["violations"]
SkipExport(violations) == violations # <<>>

\* graph.py 45-50 with exporter.py 7-13
node_export ==
    /\ entry = "graph" /\ pc = "export"
    /\ UNCHANGED extVars
    /\ trace' = Append(trace, "export")
    /\ IF SkipExport(state.violations)
       THEN /\ state' = [state EXCEPT !.export_path = "None"]
            /\ written' = written \cup NodeWrites("export")
            /\ pc' = NextNode("export")
            /\ UNCHANGED export_calls
       ELSE /\ export_calls' = Append(export_calls, state.lines)
            /\ IF ExportRaises(state.lines)
               THEN pc' = "failed" /\ UNCHANGED <<state, written>>
               ELSE /\ state' = [state EXCEPT !.export_path = ExportedPath]
                    /\ written' = written \cup NodeWrites("export")
                    /\ pc' = NextNode("export")
    /\ UNCHANGED <<entry, seedVars, valVars, final_result>>

\* ------------------------------------------------------- storage/repo.py

PlanNames == {"spring", "autumn"}
StoredLines == {<<>>, <<[store_id |-> 1, sku_id |-> "A", qty |-> 1]>>}
PlanIds == 0..MaxClock

\* repo.py 22-28: the entry written under plans[plan_id]
StoredPlan(plan_id, plan_name, ls, now) ==
    [plan_id |-> plan_id, name |-> plan_name, version |-> 1,
     status |-> "published", lines |-> ls, ts |-> now]

\* repo.py 20: str(int(time.time())), the id has the resolution of a second
NewPlanId(now) == now

\* repo.py 22: plans[plan_id] = {...} replaces an entry already under plan_id
PutPlan(ps, p) == {q \in ps : q.plan_id # p.plan_id} \cup {p}

\* repo.py 35-39: plans.get(plan_id), None for an id that is not a key
get_plan(ps, plan_id) ==
    IF \E p \in ps : p.plan_id = plan_id
    THEN LET p == CHOOSE q \in ps : q.plan_id = plan_id
         IN  [called |-> TRUE, plan_id |-> plan_id, found |-> TRUE,
              name |-> p.name, lines |-> p.lines]
    ELSE [called |-> TRUE, plan_id |-> plan_id, found |-> FALSE,
          name |-> "", lines |-> <<>>]

\* plans.json does not exist yet: _ensure_dirs creates it as {} on first use
InitRepo ==
    /\ entry = "repo"
    /\ pc = "repo"
    /\ SeedIdle
    /\ ValidateIdle
    /\ final_result = NoFinal
    /\ GraphIdle
    /\ ExtIdle

\* repo.py 15-33
save_plan ==
    /\ entry = "repo" /\ pc = "repo"
    /\ Len(saved) < MaxSaves
    /\ \E plan_name \in PlanNames, ls \in StoredLines :
         LET plan_id == NewPlanId(clock)
         IN  /\ plans' = PutPlan(plans, StoredPlan(plan_id, plan_name, ls, clock))
             /\ saved' = Append(saved, [plan_name |-> plan_name, lines |-> ls,
                                        plan_id |-> plan_id, version |-> 1,
                                        status |-> "published"])
    /\ UNCHANGED <<entry, pc, clock, fetched>>
    /\ UNCHANGED <<seedVars, valVars, final_result, graphVars, exportVars, clusterVars>>
    /\ UNCHANGED concVars

\* repo.py 35-39, called with any id
GetPlan ==
    /\ entry = "repo" /\ pc = "repo"
    /\ \E plan_id \in PlanIds : fetched' = get_plan(plans, plan_id)
    /\ UNCHANGED <<entry, pc, plans, clock, saved>>
    /\ UNCHANGED <<seedVars, valVars, final_result, graphVars, exportVars, clusterVars>>
    /\ UNCHANGED concVars

\* a second of wall-clock time passes between two calls
Tick ==
    /\ entry = "repo" /\ pc = "repo"
    /\ clock < MaxClock
    /\ clock' = clock + 1
    /\ UNCHANGED <<entry, pc, plans, saved, fetched>>
    /\ UNCHANGED <<seedVars, valVars, final_result, graphVars, exportVars, clusterVars>>
    /\ UNCHANGED concVars

\* ------------------------------- storage/repo.py: concurrent save_plan

\* the requests, threads or processes that call save_plan at the same time
Callers == {"first", "second"}

\* each caller saves a plan under its own name
CallerName(c) == IF c = "first" THEN "spring" ELSE "autumn"

\* a call not yet started, with the lines it was given
NewCall(ls) == [pc |-> "call", lines |-> ls, local |-> {}, plan_id |-> 0]

\* plans.json may or may not exist when the calls start
InitConcurrent ==
    /\ entry = "concurrent"
    /\ pc = "save_plan"
    /\ SeedIdle
    /\ ValidateIdle
    /\ final_result = NoFinal
    /\ GraphIdle
    /\ RepoIdle
    /\ ExportIdle
    /\ ClusterIdle
    /\ procs \in [Callers -> {NewCall(ls) : ls \in StoredLines}]
    /\ plans_file \in {"missing", "present"}

\* repo.py 9-11: makedirs and the os.path.exists test of _ensure_dirs
EnsureCheck(c) ==
    /\ entry = "concurrent" /\ procs[c].pc = "call"
    /\ procs' = [procs EXCEPT ![c].pc =
                    IF plans_file = "missing" THEN "create" ELSE "read"]
    /\ UNCHANGED <<entry, pc, plans_file>>
    /\ UNCHANGED <<seedVars, valVars, final_result, graphVars, repoVars,
                   exportVars, clusterVars>>

\* repo.py 12-13: the file is opened for writing and {} is dumped into it,
\* whatever it holds by now
EnsureCreate(c) ==
    /\ entry = "concurrent" /\ procs[c].pc = "create"
    /\ plans' = {}
    /\ plans_file' = "present"
    /\ procs' = [procs EXCEPT ![c].pc = "read"]
    /\ UNCHANGED <<entry, pc, clock, saved, fetched>>
    /\ UNCHANGED <<seedVars, valVars, final_result, graphVars, exportVars,
                   clusterVars>>

\* repo.py 17-18: plans = json.load(f), the caller's own copy
ReadPlans(c) ==
    /\ entry = "concurrent" /\ procs[c].pc = "read"
    /\ procs' = [procs EXCEPT ![c].pc = "write", ![c].local = plans]
    /\ UNCHANGED <<entry, pc, plans_file>>
    /\ UNCHANGED <<seedVars, valVars, final_result, graphVars, repoVars,
                   exportVars, clusterVars>>

\* repo.py 20-33: the id is stamped, the entry put into the caller's copy,
\* the copy dumped over the file and the tuple returned
WritePlans(c) ==
    /\ entry = "concurrent" /\ procs[c].pc = "write"
    /\ LET plan_id == NewPlanId(clock)
           p == StoredPlan(plan_id, CallerName(c), procs[c].lines, clock)
       IN  /\ plans' = PutPlan(procs[c].local, p)
           /\ procs' = [procs EXCEPT ![c].pc = "returned",
                                     ![c].local = PutPlan(procs[c].local, p),
                                     ![c].plan_id = plan_id]
    /\ UNCHANGED <<entry, pc, plans_file, clock, saved, fetched>>
    /\ UNCHANGED <<seedVars, valVars, final_result, graphVars, exportVars,
                   clusterVars>>

\* a second of wall-clock time passes while calls are under way
ConcurrentTick ==
    /\ entry = "concurrent" /\ clock < MaxClock
    /\ \E c \in Callers : procs[c].pc # "returned"
    /\ clock' = clock + 1
    /\ UNCHANGED <<entry, pc, plans, saved, fetched, concVars>>
    /\ UNCHANGED <<seedVars, valVars, final_result, graphVars, exportVars,
                   clusterVars>>

\* one step of one of the concurrent calls
ConcurrentSave ==
    \E c \in Callers :
        EnsureCheck(c) \/ EnsureCreate(c) \/ ReadPlans(c) \/ WritePlans(c)

\* ------------------------------------- exporter.py: export_plan_to_csv

\* schemas.PlanLine objects, which have model_dump
ExportRows == [store_id : ValStores, sku_id : SkuIds, qty : {1}]
ExportLineLists == UNION {[1..n -> ExportRows] : n \in 0..MaxLines}

\* the file df.to_csv leaves when it returns: the header and every row
Complete(f, ls) == f.exists /\ f.header /\ f.rows = ls /\ f.closed

InitExport ==
    /\ entry = "export"
    /\ pc = "export_plan_to_csv"
    /\ SeedIdle
    /\ ValidateIdle
    /\ final_result = NoFinal
    /\ GraphIdle
    /\ RepoIdle
    /\ ClusterIdle
    /\ ConcIdle
    /\ export_lines \in ExportLineLists
    /\ out_file = NoFile

\* exporter.py 8-12: the frame is built and to_csv opens the export path
\* itself for writing, which creates the file empty
ExportOpen ==
    /\ entry = "export" /\ pc = "export_plan_to_csv"
    /\ out_file' = [exists |-> TRUE, header |-> FALSE, rows |-> <<>>, closed |-> FALSE]
    /\ pc' = "to_csv"
    /\ UNCHANGED <<entry, export_lines>>
    /\ UNCHANGED <<seedVars, valVars, final_result, graphVars, repoVars, clusterVars>>
    /\ UNCHANGED concVars

\* exporter.py 12: to_csv writes the header, then the rows, into that file
ExportWrite ==
    /\ entry = "export" /\ pc = "to_csv"
    /\ \/ /\ ~out_file.header
          /\ out_file' = [out_file EXCEPT !.header = TRUE]
       \/ /\ out_file.header
          /\ Len(out_file.rows) < Len(export_lines)
          /\ out_file' = [out_file EXCEPT
                            !.rows = Append(@, export_lines[Len(@) + 1])]
    /\ UNCHANGED <<entry, pc, export_lines>>
    /\ UNCHANGED <<seedVars, valVars, final_result, graphVars, repoVars, clusterVars>>
    /\ UNCHANGED concVars

\* exporter.py 12-13: everything is written, the file is closed, path returned
ExportReturn ==
    /\ entry = "export" /\ pc = "to_csv"
    /\ out_file.header /\ out_file.rows = export_lines
    /\ out_file' = [out_file EXCEPT !.closed = TRUE]
    /\ pc' = "exported"
    /\ UNCHANGED <<entry, export_lines>>
    /\ UNCHANGED <<seedVars, valVars, final_result, graphVars, repoVars, clusterVars>>
    /\ UNCHANGED concVars

\* exporter.py 8-12: the call fails or is cancelled (a write error, the
\* request task cancelled, the process killed); nothing removes the file
ExportInterrupted ==
    /\ entry = "export" /\ pc \in {"export_plan_to_csv", "to_csv"}
    /\ pc' = "interrupted"
    /\ UNCHANGED <<entry, export_lines, out_file>>
    /\ UNCHANGED <<seedVars, valVars, final_result, graphVars, repoVars, clusterVars>>
    /\ UNCHANGED concVars

\* -------------------------------------- clustering.py: cluster_stores

\* the stores of stores_csv: S1..Sn
StoreSets == {1..n : n \in 1..(Len(mock_cluster_map) + 1)}
NoClusters == 0
ClusterCounts == {NoClusters, 2, 3}

InitCluster ==
    /\ entry = "cluster"
    /\ pc = "cluster_stores"
    /\ SeedIdle
    /\ ValidateIdle
    /\ final_result = NoFinal
    /\ GraphIdle
    /\ RepoIdle
    /\ ExportIdle
    /\ ConcIdle
    /\ input_stores \in StoreSets
    /\ n_clusters \in ClusterCounts
    /\ cluster_result = <<>>

\* clustering.py 13-53: the arguments are not read, the mock map is returned
cluster_stores ==
    /\ entry = "cluster" /\ pc = "cluster_stores"
    /\ cluster_result' = mock_cluster_map
    /\ pc' = "clustered"
    /\ UNCHANGED <<entry, input_stores, n_clusters>>
    /\ UNCHANGED <<seedVars, valVars, final_result, graphVars, repoVars, exportVars>>
    /\ UNCHANGED concVars

Init ==
    InitSeed \/ InitValidate \/ InitGraph \/ InitRepo \/ InitExport \/ InitCluster
    \/ InitConcurrent

Next ==
    \/ StartPlanLines
    \/ NextSku
    \/ AllocateStore
    \/ ReturnPlanLines
    \/ FinishGeneratePlan
    \/ ValidateRoute
    \/ WorkflowValidate
    \/ WorkflowFinish
    \/ node_cluster
    \/ node_generate
    \/ node_validate
    \/ node_export
    \/ save_plan
    \/ GetPlan
    \/ Tick
    \/ ExportOpen
    \/ ExportWrite
    \/ ExportReturn
    \/ ExportInterrupted
    \/ cluster_stores
    \/ ConcurrentSave
    \/ ConcurrentTick

Spec == Init /\ [][Next]_vars

\* ================================================================ claims

Max(a, b) == IF a > b THEN a ELSE b

\* the allocation loop of _generate_plan_lines has started
Allocating == entry = "seed" /\ pc # "generate_plan"

\* _generate_plan_lines has returned its lines
LinesReturned ==
    entry = "seed" /\ pc \notin {"generate_plan", "sku_loop", "store_loop"}

DistinctSkus(ls, store) ==
    Cardinality({ls[i].sku : i \in {j \in 1..Len(ls) : ls[j].store = store}})

C2_AtMostCap ==
    Allocating =>
        \A s \in Range(cluster_map) : DistinctSkus(lines, s) <= max_skus_per_store

\* C2 amended: at every step each store holds at most max(max_skus_per_store, 0)
\* lines, hence at most that many distinct SKUs; with max_skus_per_store <= 0
\* no store receives a line.
C2_AtMostCapOrNone ==
    Allocating =>
        \A s \in Range(cluster_map) :
            /\ store_sku_counts[s] = Len(SelectSeq(lines, LAMBDA l : l.store = s))
            /\ DistinctSkus(lines, s) <= store_sku_counts[s]
            /\ store_sku_counts[s] <= Max(max_skus_per_store, 0)

\* a store filled to a cap of one while the catalog had a second SKU for it
C2_Witness ==
    /\ LinesReturned /\ max_skus_per_store = 1 /\ Len(skus_df) = 2
    /\ remaining_budget >= sku_priorities[2].cost
    /\ \E s \in Range(cluster_map) : store_sku_counts[s] = 1

\* C3: once the EXPORT stage has run, a non-empty violations list means a null
\* export path and no call of the export collaborator; an empty one means
\* exactly one call, with the generated lines, whose path is recorded.
C3_ExportGate ==
    (entry = "graph" /\ Len(trace) = 4) =>
        IF state.violations # <<>>
        THEN /\ pc = "END" /\ "export_path" \in written
             /\ state.export_path = "None" /\ export_calls = <<>>
        ELSE /\ export_calls = <<state.lines>>
             /\ pc = "END" /\ "export_path" \in written
             /\ state.export_path = ExportedPath

\* C4: a workflow run that reports a violation records a null export path.
C4_WorkflowExportGate ==
    (entry = "seed" /\ final_result.present /\ final_result.violations > 0)
        => final_result.export_path = "None"

PipelineOrder == <<"cluster", "generate", "validate", "export">>

IsPrefix(s, t) == Len(s) <= Len(t) /\ \A i \in 1..Len(s) : s[i] = t[i]

\* the keys written by the nodes that ran before the i-th
WrittenBefore(i) == UNION {NodeWrites(trace[j]) : j \in 1..(i - 1)}

\* C5: the nodes run in the order CLUSTER, GENERATE, VALIDATE, EXPORT, each at
\* most once; a node starts only when the node before it has written its key;
\* a node reads only the caller's keys and keys written before it; and the
\* run ends normally only after EXPORT.
C5_StageOrder ==
    entry = "graph" =>
        /\ IsPrefix(trace, PipelineOrder)
        /\ \A i \in 1..Len(trace) :
              NodeReads(trace[i]) \subseteq InputKeys \cup WrittenBefore(i)
        /\ \A i \in 1..(Len(trace) - 1) : NodeWrites(trace[i]) \subseteq written
        /\ pc \notin {"END", "failed"} => pc = PipelineOrder[Len(trace) + 1]
        /\ pc = "END" => trace = PipelineOrder

\* a run that went through the four nodes with violations and lines
C5_Witness ==
    /\ entry = "graph" /\ pc = "END" /\ Len(trace) = 4
    /\ state.violations # <<>> /\ state.lines # <<>>

\* C6: a node that raised is the last node of its run, the run is failed and
\* takes no further step, what earlier nodes wrote is kept, no export path is
\* recorded and, unless EXPORT itself raised, the export collaborator was
\* not called; a failed workflow run records no final result, and none of
\* validation when generate_plan raised.
C6_AbortOnError ==
    /\ entry = "graph" =>
          /\ \A i \in 1..(Len(trace) - 1) : NodeWrites(trace[i]) \subseteq written
          /\ pc = "failed" =>
                /\ written = WrittenBefore(Len(trace))
                /\ state.export_path = "None"
                /\ trace[Len(trace)] # "export" => export_calls = <<>>
    /\ (entry = "seed" /\ pc = "failed") =>
          /\ final_result = NoFinal
          /\ ~plan.returned => validation_result = NoValidation
    /\ pc = "failed" => ~ENABLED Next

\* a graph run that failed in VALIDATE with lines already generated
C6_Witness ==
    /\ entry = "graph" /\ pc = "failed"
    /\ trace = <<"cluster", "generate", "validate">> /\ state.lines # <<>>

BudgetViolations(violations) ==
    SelectSeq(violations, LAMBDA v : v.type = "budget_exceeded")

\* C7: for any lines and budget rule the call returns; it returns exactly one
\* budget_exceeded violation, critical, with is_valid false when the lines
\* cost more than the budget, and no budget_exceeded violation otherwise.
C7_BudgetRule ==
    (entry = "validate" /\ pc # "validate_plan") =>
        /\ pc = "validated"
        /\ IF rules.budget.present /\ SumCost(val_lines) > rules.budget.val
           THEN /\ Len(BudgetViolations(validation_result.violations)) = 1
                /\ BudgetViolations(validation_result.violations)[1].severity
                      = "critical"
                /\ ~validation_result.is_valid
           ELSE BudgetViolations(validation_result.violations) = <<>>

StoreViolations(violations, type, store) ==
    SelectSeq(violations, LAMBDA v : v.type = type /\ v.store = store)

\* C8: in a returned result, a store of the lines has one critical
\* sku_limit_exceeded violation when its distinct SKUs exceed
\* max_skus_per_store and none otherwise, and one warning
\* sku_minimum_not_met violation when they are fewer than min_skus_per_store
\* and none otherwise; a store without a line has neither.
C8_SkuLimits ==
    (entry = "validate" /\ pc = "validated") =>
        \A s \in ValStores :
            LET n == DistinctSkus(val_lines, s)
                listed == \E i \in 1..Len(val_lines) : val_lines[i].store = s
                over == StoreViolations(validation_result.violations,
                                        "sku_limit_exceeded", s)
                under == StoreViolations(validation_result.violations,
                                         "sku_minimum_not_met", s)
            IN  /\ Len(over) =
                      IF listed /\ rules.max_skus_per_store.present
                                /\ n > rules.max_skus_per_store.val
                      THEN 1 ELSE 0
                /\ \A i \in 1..Len(over) : over[i].severity = "critical"
                /\ Len(under) =
                      IF listed /\ rules.min_skus_per_store.present
                                /\ n < rules.min_skus_per_store.val
                      THEN 1 ELSE 0
                /\ \A i \in 1..Len(under) : under[i].severity = "warning"

\* a store with two lines of one SKU, at a cap of one and under the minimum
C8_Witness ==
    /\ entry = "validate" /\ pc = "validated"
    /\ Len(val_lines) = 2 /\ val_lines[1].store = val_lines[2].store
    /\ val_lines[1].sku = val_lines[2].sku
    /\ rules.max_skus_per_store.present /\ rules.max_skus_per_store.val = 1
    /\ rules.min_skus_per_store.present
    /\ Len(validation_result.violations) = 1
    /\ validation_result.violations[1].type = "sku_minimum_not_met"

\* C9: is_valid holds exactly when no returned violation is critical, so a
\* result with warnings only is valid without being free of violations; the
\* workflow's status is auto_approved exactly when is_valid holds and
\* requires_manual_review otherwise.
C9_TwoSignals ==
    /\ validation_result.present =>
          /\ validation_result.is_valid <=>
                ~\E i \in 1..Len(validation_result.violations) :
                    validation_result.violations[i].severity = "critical"
          /\ ((validation_result.violations # <<>>)
              /\ (\A i \in 1..Len(validation_result.violations) :
                    validation_result.violations[i].severity = "warning"))
             => validation_result.is_valid
    /\ final_result.present =>
          /\ final_result.validation_status = "auto_approved"
                <=> validation_result.is_valid
          /\ final_result.validation_status = "requires_manual_review"
                <=> ~validation_result.is_valid

\* a returned result with warnings only: valid, but not free of violations
C9_Witness ==
    /\ entry = "validate" /\ pc = "validated"
    /\ validation_result.is_valid
    /\ Len(validation_result.violations) = 2
    /\ validation_result.violations[1].type = "sku_minimum_not_met"
    /\ validation_result.violations[2].type = "fixture_capacity_exceeded"

\* the lines of the allocator validated under its own budget and cap
RoundTrip == validate_plan(lines, WorkflowRules(budget, max_skus_per_store))

GeneratePlanEnded ==
    entry = "seed" /\ (plan.returned \/ pc = "failed")

\* C11: generate_plan called with an empty SKU catalog or an empty cluster
\* map completes normally and returns an empty line list with total cost 0,
\* the whole budget unspent.
C11_EmptyInputsReturnEmptyPlan ==
    (GeneratePlanEnded /\ (skus_df = <<>> \/ cluster_map = <<>>)) =>
        /\ plan.returned
        /\ plan.lines = <<>>
        /\ plan.total_cost = 0
        /\ remaining_budget = budget

\* C12: with budget 0 and a non-empty catalog (zero-cost SKUs included) and
\* any cluster map, generate_plan completes normally and returns zero lines,
\* the budget left at 0.
C12_ZeroBudgetReturnsNoLines ==
    (GeneratePlanEnded /\ budget = 0 /\ skus_df # <<>>) =>
        /\ plan.returned
        /\ plan.lines = <<>>
        /\ remaining_budget = 0

\* the ids the save_plan calls of the run returned
ReturnedIds == {saved[i].plan_id : i \in DOMAIN saved}

\* C13: after any sequence of save_plan calls, get_plan of every returned
\* plan_id yields the name and lines passed to the call that returned it,
\* every save returned version 1 and status published, and get_plan of an id
\* no save returned yields None.
C13_SavedPlansRetrievable ==
    entry = "repo" =>
        /\ \A i \in DOMAIN saved :
              /\ get_plan(plans, saved[i].plan_id).found
              /\ get_plan(plans, saved[i].plan_id).name = saved[i].plan_name
              /\ get_plan(plans, saved[i].plan_id).lines = saved[i].lines
              /\ saved[i].version = 1 /\ saved[i].status = "published"
        /\ \A id \in PlanIds \ ReturnedIds : ~get_plan(plans, id).found

\* C14: at every point of an export, interrupted or not, the export path
\* holds no file or the complete file, never a partially written one.
C14_ExportAtomic ==
    (entry = "export" /\ out_file.exists) => Complete(out_file, export_lines)

\* C15: for every non-empty input store set the map cluster_stores returns
\* has exactly the input's store ids as keys, with cluster ids in [0, k).
C15_AssignmentCoversInput ==
    (entry = "cluster" /\ pc = "clustered") =>
        /\ DOMAIN cluster_result = input_stores
        /\ n_clusters # NoClusters =>
              \A s \in DOMAIN cluster_result : cluster_result[s] \in 0..(n_clusters - 1)

\* the violation types of the returned result
ReportedTypes == {validation_result.violations[i].type :
                     i \in DOMAIN validation_result.violations}

\* C16: a rule absent from the rules mapping has its check skipped: no
\* violation of its type is reported and the call completes; with an empty
\* rules mapping every line list yields zero violations and is_valid, and
\* fixture violations appear only when fixture constraints are supplied.
C16_AbsentRulesSkipped ==
    (entry = "validate" /\ pc # "validate_plan") =>
        /\ ~rules.budget.present =>
              pc = "validated" /\ "budget_exceeded" \notin ReportedTypes
        /\ ~rules.max_skus_per_store.present =>
              "sku_limit_exceeded" \notin ReportedTypes
        /\ ~rules.min_skus_per_store.present =>
              "sku_minimum_not_met" \notin ReportedTypes
        /\ ~rules.fixture_constraints.present =>
              "fixture_capacity_exceeded" \notin ReportedTypes
        /\ rules = NoRules =>
              /\ pc = "validated"
              /\ validation_result.violations = <<>>
              /\ validation_result.is_valid

\* two costly lines of quantity two in one store, validated under no rule
C16_Witness ==
    /\ entry = "validate" /\ pc = "validated" /\ rules = NoRules
    /\ Len(val_lines) = 2 /\ val_lines[1].store = val_lines[2].store
    /\ val_lines[1].sku # val_lines[2].sku
    /\ \A i \in 1..2 : val_lines[i].cost = MaxCost /\ val_lines[i].quantity = 2
    /\ validation_result.present

\* the catalog row at position i with the priority the forecast gives it
CatalogEntry(i) ==
    [priority |-> Priority(demand_forecasts, skus_df[i].sku_id),
     sku_id |-> skus_df[i].sku_id, cost |-> skus_df[i].cost]

\* the one-to-one maps from ranking positions to catalog positions
Orderings(n) == {f \in [1..n -> 1..n] : \A i, j \in 1..n : f[i] = f[j] => i = j}

\* C17: from the first step of the allocation to its end the ranking is the
\* catalog in descending order of priority (forecast demand, or the default
\* priority without a forecast entry), equal priorities in catalog order; as
\* the catalog and the forecasts are fixed, it is the same ranking throughout.
C17_RankedOnceStable ==
    Allocating =>
        /\ Len(sku_priorities) = Len(skus_df)
        /\ \E f \in Orderings(Len(skus_df)) :
              /\ \A i \in 1..Len(skus_df) : sku_priorities[i] = CatalogEntry(f[i])
              /\ \A i, j \in 1..Len(skus_df) :
                    i < j =>
                       /\ sku_priorities[i].priority >= sku_priorities[j].priority
                       /\ sku_priorities[i].priority = sku_priorities[j].priority
                             => f[i] < f[j]

\* a catalog whose second SKU has the higher demand, allocated to the end
C17_Witness ==
    /\ LinesReturned /\ Len(skus_df) = 2 /\ lines # <<>>
    /\ CatalogEntry(1).priority < CatalogEntry(2).priority
    /\ sku_priorities = <<CatalogEntry(2), CatalogEntry(1)>>

\* line l was emitted for the ranking entry e
LineOf(l, e) ==
    l.sku = e.sku_id /\ l.unit_cost = e.cost /\ l.forecast_demand = e.priority

\* the ranking positions a line can come from
RankPositions(l) ==
    {k \in 1..Len(sku_priorities) : LineOf(l, sku_priorities[k])}

\* C18 as stated: in the returned list the lines of one store are contiguous,
\* the stores appear in cluster-map insertion order, and within a store the
\* lines are in ranked SKU order.
C18_StoreByStore ==
    LinesReturned =>
        \A i, j \in 1..Len(lines) :
            i < j =>
               /\ lines[i].store <= lines[j].store
               /\ lines[i].store = lines[j].store =>
                     \E a \in RankPositions(lines[i]), b \in RankPositions(lines[j]) : a < b

\* ls continues a list whose last line came from ranking position r and
\* store st: each line stays with that position at a later store, or moves
\* to a later position
RECURSIVE SkuBySku(_, _, _)
SkuBySku(ls, r, st) ==
    IF ls = <<>> THEN TRUE
    ELSE IF r > 0 /\ LineOf(ls[1], sku_priorities[r]) /\ ls[1].store > st
         THEN SkuBySku(Tail(ls), r, ls[1].store)
         ELSE LET later == {k \in RankPositions(ls[1]) : k > r}
              IN  /\ later # {}
                  /\ SkuBySku(Tail(ls), CHOOSE k \in later : \A m \in later : k <= m,
                              ls[1].store)

\* C18 amended: allocation proceeds SKU by SKU: in the line list all lines
\* of one ranked SKU are contiguous, the SKUs appear in ranked order, and
\* within a SKU the lines are in cluster-map insertion order of their stores.
C18_SkuBySku ==
    Allocating => SkuBySku(lines, 0, 0)

\* one SKU placed in stores 1 and 2, then the next SKU placed in store 1
C18_Witness ==
    /\ LinesReturned /\ Len(lines) = 3
    /\ lines[1].store = 1 /\ lines[2].store = 2 /\ lines[3].store = 1
    /\ lines[1].sku = lines[2].sku /\ lines[3].sku # lines[1].sku
    /\ \A i \in 1..3 : lines[i].cost > 0

\* no SKU has a forecast entry
NoForecastUsed == \A id \in SkuIds : demand_forecasts[id] = NoForecast

\* the budget left when line i was considered
RemainingBefore(i) == budget - SumCost(SubSeq(lines, 1, i - 1))

\* what holds of every line with or without a forecast: a quantity of at
\* least 1, cost = unit_cost x quantity, and a cost within the budget left
LineCosted(i) ==
    /\ lines[i].quantity >= 1
    /\ lines[i].cost = lines[i].unit_cost * lines[i].quantity
    /\ lines[i].cost <= RemainingBefore(i)

\* C19 as stated: without a forecast every line has quantity 1; with one the
\* quantity is at least 1; a line's cost is unit_cost x quantity and it is
\* emitted only if that cost is at most the remaining budget.
C19_QuantityOneWithoutForecast ==
    Allocating =>
        \A i \in 1..Len(lines) :
            /\ NoForecastUsed => lines[i].quantity = 1
            /\ LineCosted(i)

\* C19 amended: without a forecast every line has quantity 2, half the
\* default demand of 5 rounded down; with a forecast the quantity is half the
\* SKU's forecast demand rounded down, and at least 1; a line's cost is
\* unit_cost x quantity and it is emitted only if that cost is at most the
\* remaining budget.
C19_QuantityFromDemand ==
    Allocating =>
        \A i \in 1..Len(lines) :
            /\ NoForecastUsed => lines[i].quantity = 2
            /\ lines[i].forecast_demand = Priority(demand_forecasts, lines[i].sku)
            /\ lines[i].forecast_demand >= 2 =>
                  /\ 2 * lines[i].quantity <= lines[i].forecast_demand
                  /\ lines[i].forecast_demand < 2 * lines[i].quantity + 2
            /\ lines[i].forecast_demand < 2 => lines[i].quantity = 1
            /\ LineCosted(i)

\* no forecast: one line of two units at unit cost 1, and a second store left
\* without a line because 1 was left, enough for a unit but not for the line
C19_Witness ==
    /\ LinesReturned /\ ~use_forecasting /\ NoForecastUsed
    /\ Len(lines) = 1 /\ lines[1].quantity = 2 /\ lines[1].unit_cost = 1
    /\ remaining_budget = 1
    /\ Len(cluster_map) >= 2 /\ max_skus_per_store >= 1

\* the auto workflow has called generate_plan and gone on from its result
WorkflowWentOn ==
    /\ entry = "seed" /\ use_forecasting /\ plan.returned
    /\ pc \in {"failed", "workflow_validated", "completed"}

\* C20: for every plan generate_plan returns the auto workflow hands the
\* validator one line per generated line with that line's store, SKU and
\* cost, reaches a validation status instead of failing, and has the budget
\* rule evaluated on the plan's total cost.
C20_WorkflowValidatesEveryPlan ==
    WorkflowWentOn =>
        /\ pc # "failed"
        /\ validation_result.present
        /\ Len(val_lines) = Len(plan.lines)
        /\ \A i \in 1..Len(val_lines) :
              /\ val_lines[i].store = plan.lines[i].store
              /\ val_lines[i].sku = plan.lines[i].sku
              /\ val_lines[i].cost = plan.lines[i].cost
        /\ (\E i \in DOMAIN validation_result.violations :
                validation_result.violations[i].type = "budget_exceeded")
              <=> plan.total_cost > budget

\* every concurrent call has returned
AllReturned ==
    entry = "concurrent" /\ \A c \in Callers : procs[c].pc = "returned"

\* C21: when the concurrent save_plan calls have all returned, get_plan of
\* the plan_id each call returned yields that call's own name and lines: no
\* interleaving loses or overwrites another call's plan.
C21_ConcurrentSavesKept ==
    AllReturned =>
        \A c \in Callers :
            /\ get_plan(plans, procs[c].plan_id).found
            /\ get_plan(plans, procs[c].plan_id).name = CallerName(c)
            /\ get_plan(plans, procs[c].plan_id).lines = procs[c].lines

\* the stores that hold fewer than max_skus_per_store lines
OpenStores ==
    {t \in Range(cluster_map) : store_sku_counts[t] < max_skus_per_store}

\* a SKU is taken up for allocation: the stores chosen for it are the first
\* three open stores in insertion order, or all of them if there are fewer
SkuConsidered ==
    (entry = "seed" /\ pc = "sku_loop" /\ pc' = "store_loop") =>
        /\ Len(eligible_stores') <= 3
        /\ \A i, j \in DOMAIN eligible_stores' :
              i < j => eligible_stores'[i] < eligible_stores'[j]
        /\ Range(eligible_stores') \subseteq OpenStores
        /\ \A t \in OpenStores \ Range(eligible_stores') :
              /\ Len(eligible_stores') = 3
              /\ \A k \in DOMAIN eligible_stores' : eligible_stores'[k] < t
        /\ sidx' = 1 /\ idx' = idx

\* a line is emitted: it is the one line of the current ranked entry for the
\* current chosen store, each chosen store is visited once, and fewer than
\* three earlier stores are open
LinePlaced ==
    (entry = "seed" /\ lines' # lines) =>
        /\ pc = "store_loop"
        /\ lines' = Append(lines, lines'[Len(lines')])
        /\ LineOf(lines'[Len(lines')], sku_priorities[idx])
        /\ lines'[Len(lines')].store = eligible_stores[sidx]
        /\ eligible_stores' = eligible_stores
        /\ \/ sidx' = sidx + 1 /\ idx' = idx /\ pc' = "store_loop"
           \/ sidx = Len(eligible_stores) /\ idx' = idx + 1 /\ pc' = "sku_loop"
        /\ Cardinality({t \in OpenStores : t < lines'[Len(lines')].store}) < 3

\* C22: each ranked catalog entry is placed in at most three stores, one
\* line per store at most, the stores being the first in insertion order
\* that held fewer than max_skus_per_store lines when the SKU was taken up;
\* no store gets a line while three earlier stores are still below the cap.
C22_FirstThreeOpenStores ==
    [][SkuConsidered /\ LinePlaced /\ (entry = "seed" => idx' >= idx)]_vars

\* one SKU placed in stores 1, 2 and 3 of four; store 4 is below the cap and
\* the budget left pays for another line, yet it has none
C22_Witness ==
    /\ LinesReturned /\ Len(skus_df) = 1 /\ Len(cluster_map) = 4
    /\ Len(lines) = 3 /\ \A i \in 1..3 : lines[i].store = i
    /\ 4 \in OpenStores
    /\ budget > 0 /\ remaining_budget >= lines[1].cost

====
